---- MODULE Spec2Model ----
(***************************************************************************)
(* The two discrete-event simulations of the repository:                   *)
(*   runTangleSimulation  (src/src/tangle_sim.cpp, second translation unit *)
(*                         of the file, lines 321-616)                     *)
(*   runWitnessSimulation (src/unnamed/part_000)                           *)
(*                                                                         *)
(* Times are doubles in the source.  They are represented here in ticks of *)
(* half a time unit, so that dt = 1.0 is 2 ticks and a delivery time can   *)
(* fall on a step or strictly between two steps.                           *)
(*                                                                         *)
(* Every random draw (the emission test, uniform_int, weighted_choice, the *)
(* per-recipient delay) is a nondeterministic choice over the values the   *)
(* draw can return.  Vectors indexed by node id or process id are          *)
(* functions over 0..n-1; parents and children lists are sequences.        *)
(***************************************************************************)
EXTENDS Integers, Sequences, FiniteSets, TLC

\* ---- bounds of the model ------------------------------------------------
NumProcesses == 2       \* numProcesses of a tangle run
NumUsers == 3           \* numUsers of a witness run
MaxNodes == 3           \* a tangle run stops creating when g_nodes holds this many nodes
MaxBlocks == 4          \* a witness run stops creating when g_wnodes holds this many nodes
MaxDelay == 3           \* largest configured delay, in ticks
MaxDuration == 4        \* simDuration, in ticks
MaxWitnessCap == 2      \* largest configured maxWitnesses
MaxWeights == 3         \* longest weights vector passed to weighted_choice on its own
MaxWeight == 2          \* largest weight in such a vector, in units of 1

\* ---- program constants ---------------------------------------------------
dt == 2                 \* double dt = 1.0, in ticks
One == 2                \* the probability 1.0, in halves

VARIABLES
    sim,            \* "tangle" | "witness": which run function executes (argv[1])
    pc,             \* position in the run function
    prIdx,          \* index of the for-loop over procs in the creation phase
    now,            \* double now
    simDuration, minDelay, maxDelay,   \* parameters of both run functions
    numProcesses,   \* int numProcesses             (tangle)
    txProb,         \* double txProb, in halves     (tangle)
    postProbPerStep,\* double postProbPerStep, in halves (witness)
    mode,           \* TipSelectionMode mode        (tangle)
    maxWitnesses,   \* int maxWitnesses             (witness)
    g_nodes, g_globalTips, g_messagesSent, procs,   \* tangle
    g_wnodes, g_globalLeaves, wprocs,               \* witness
    pq,             \* the priority queue of messages, as the set of its elements
    out,            \* std::ofstream out: the lines written so far
    outOk,          \* the state of the stream: TRUE once it has been opened (!out is false)
    nodeCap,        \* the number of nodes at which the model stops creating
    wc,             \* one call of weighted_choice: its argument, its draw, its result
    creator         \* history: creator[n] = id of the process whose loop body created node n

vars == << sim, pc, prIdx, now, simDuration, minDelay, maxDelay, numProcesses, txProb,
           postProbPerStep, mode, maxWitnesses, nodeCap,
           g_nodes, g_globalTips, g_messagesSent, procs,
           g_wnodes, g_globalLeaves, wprocs, pq, out, outOk, wc, creator >>

cfgVars == << sim, simDuration, minDelay, maxDelay, numProcesses, txProb, postProbPerStep,
              mode, maxWitnesses, nodeCap >>
tangleVars == << g_nodes, g_globalTips, g_messagesSent, procs >>
witnessVars == << g_wnodes, g_globalLeaves, wprocs >>

\* ---- vectors -------------------------------------------------------------
Size(v) == Cardinality(DOMAIN v)
PushBack(v, x) == [k \in 0..Size(v) |-> IF k < Size(v) THEN v[k] ELSE x]
Range(s) == {s[k] : k \in DOMAIN s}
MaxOf(S) == CHOOSE x \in S : \A y \in S : y <= x
MinOf(S) == CHOOSE x \in S : \A y \in S : x <= y

TipSelectionMode == {"RANDOM_ONLY", "MCMC_ONLY", "HYBRID"}

\* ---- tangle: helpers -----------------------------------------------------

\* processReceiveNode without the final tipSet.insert(nodeId)
processReceiveNodeNeverTip(nodes, proc, nodeId) ==
    IF nodeId \in proc.knownNodes THEN proc
    ELSE LET known == proc.knownNodes \cup {nodeId}
             erased == proc.tipSet \ {p \in Range(nodes[nodeId].parents) : p \in known}
         IN  [proc EXCEPT !.knownNodes = known, !.tipSet = erased]

\* processReceiveNode with the hasKnownChild test dropped
processReceiveNodeAlwaysTip(nodes, proc, nodeId) ==
    IF nodeId \in proc.knownNodes THEN proc
    ELSE LET known == proc.knownNodes \cup {nodeId}
             erased == proc.tipSet \ {p \in Range(nodes[nodeId].parents) : p \in known}
         IN  [proc EXCEPT !.knownNodes = known, !.tipSet = erased \cup {nodeId}]

processReceiveNode(nodes, proc, nodeId) ==
    IF nodeId \in proc.knownNodes THEN proc
    ELSE LET known == proc.knownNodes \cup {nodeId}
             erased == proc.tipSet \ {p \in Range(nodes[nodeId].parents) : p \in known}
             hasKnownChild == \E c \in Range(nodes[nodeId].children) : c \in known
         IN  [proc EXCEPT !.knownNodes = known,
                          !.tipSet = IF hasKnownChild THEN erased ELSE erased \cup {nodeId}]

\* uniform_real_distribution(a, b): a value of [a, b), a itself when a = b
uniform_double(a, b) == IF a = b THEN {a} ELSE a..(b - 1)

\* uniform_int_distribution(a, b)
uniform_int(a, b) == a..b

RECURSIVE SumTo(_, _)
SumTo(w, k) == IF k = 0 THEN 0 ELSE SumTo(w, k - 1) + w[k]

RECURSIVE scanWeightsStrict(_, _, _, _)
\* the loop with the test r < acc
scanWeightsStrict(weights, r, i, acc) ==
    IF i >= Len(weights) THEN Len(weights) - 1
    ELSE IF r < acc + weights[i + 1] THEN i
    ELSE scanWeightsStrict(weights, r, i + 1, acc + weights[i + 1])

RECURSIVE scanWeights(_, _, _, _)
\* for (i = 0; i < weights.size(); ++i) { acc += weights[i]; if (r <= acc) return i; }
\* return weights.size() - 1;    from index i (0-based) on, for the draw r
scanWeights(weights, r, i, acc) ==
    IF i >= Len(weights) THEN Len(weights) - 1
    ELSE IF r <= acc + weights[i + 1] THEN i
    ELSE scanWeights(weights, r, i + 1, acc + weights[i + 1])

\* weighted_choice: the set of indices (0-based) the call can return
weighted_choice(weights) ==
    IF weights = << >> THEN {-1}
    ELSE LET n == Len(weights)
             sum == SumTo(weights, n)
         IN  IF sum <= 0 THEN uniform_int(0, n - 1)
             ELSE { scanWeights(weights, r, 0, 0) : r \in uniform_double(0, sum) }

\* uniformRandomTip drawing from knownNodes instead of tipSet
uniformRandomTipKnown(proc) ==
    IF proc.tipSet = {} THEN {0} ELSE proc.knownNodes

\* uniformRandomTip: the set of ids the call can return (the iteration order of
\* the unordered_set is unspecified and k is any index)
uniformRandomTip(proc) ==
    IF proc.tipSet = {} THEN {0} ELSE proc.tipSet

\* exp(alpha * h) for alpha = ln 2, in units of 1/2
Weight(h) == 2 ^ (h + 1)

\* the children of current without the test proc.knownNodes.count(c)
knownChildrenOfAll(nodes, proc, current) == nodes[current].children

knownChildrenOf(nodes, proc, current) ==
    SelectSeq(nodes[current].children, LAMBDA c : c \in proc.knownNodes)

RECURSIVE walkFrom(_, _, _)
walkFrom(nodes, proc, current) ==
    LET knownChildren == knownChildrenOf(nodes, proc, current)
        weights == [k \in 1..Len(knownChildren) |-> Weight(nodes[knownChildren[k]].height)]
    IN  IF knownChildren = << >> THEN {current}
        ELSE UNION { IF idx < 0 THEN {knownChildren[1]}
                     ELSE walkFrom(nodes, proc, knownChildren[idx + 1])
                     : idx \in weighted_choice(weights) }

\* biasedRandomWalk: the set of ids the walk can return
biasedRandomWalk(nodes, proc) == walkFrom(nodes, proc, 0)

\* one selection of selectTips' loop body
selectOneTip(nodes, proc, m) ==
    IF m = "RANDOM_ONLY" THEN uniformRandomTip(proc)
    ELSE IF m = "MCMC_ONLY" THEN biasedRandomWalk(nodes, proc)
    ELSE biasedRandomWalk(nodes, proc) \cup uniformRandomTip(proc)

\* selectTips(proc, rng, mode, securityBias, alphaHigh, 2): the possible results
selectTips(nodes, proc, m) ==
    { << t1, t2 >> : t1 \in selectOneTip(nodes, proc, m), t2 \in selectOneTip(nodes, proc, m) }

\* broadcastNode called before the node is pushed: the messages carry the id
\* after the last existing one
broadcastOutcomesNextId(nodeId, senderId, n) ==
    LET others == (0..(n - 1)) \ {senderId}
    IN  { { [deliverTime |-> now + delay[q], receiverId |-> q, nodeId |-> nodeId + 1] : q \in others }
          : delay \in [others -> uniform_double(minDelay, maxDelay)] }

\* broadcastNode without the test p.id == senderId
broadcastOutcomesToAll(nodeId, senderId, n) ==
    LET others == 0..(n - 1)
    IN  { { [deliverTime |-> now + delay[q], receiverId |-> q, nodeId |-> nodeId] : q \in others }
          : delay \in [others -> uniform_double(minDelay, maxDelay)] }

\* the messages one broadcastNode call pushes, for one outcome of its delay draws
broadcastOutcomes(nodeId, senderId, n) ==
    LET others == (0..(n - 1)) \ {senderId}
    IN  { { [deliverTime |-> now + delay[q], receiverId |-> q, nodeId |-> nodeId] : q \in others }
          : delay \in [others -> uniform_double(minDelay, maxDelay)] }

\* ---- shared: the queue ---------------------------------------------------
\* pq.top(): an element of least deliverTime (MessageCompare orders by
\* deliverTime only, the order among equal times is the heap's)
\* the heap ordered the other way round (a.deliverTime < b.deliverTime)
TopsMaxHeap == { m \in pq : \A o \in pq : m.deliverTime >= o.deliverTime }

Tops == { m \in pq : \A o \in pq : m.deliverTime <= o.deliverTime }
\* the drain test with deliverTime < now
DueStrict == pq # {} /\ \E m \in Tops : m.deliverTime < now

Due == pq # {} /\ \E m \in Tops : m.deliverTime <= now

\* the loop test with now < simDuration
LoopHeadStrict(t) == IF t < simDuration THEN "deliver" ELSE "done"

\* while (now <= simDuration)
LoopHead(t) == IF t <= simDuration THEN "deliver" ELSE "done"

\* ---- initial state -------------------------------------------------------
\* the configured [minDelay, maxDelay]: the fixed delays 0 and MaxDelay, and
\* for a tangle run, where the order of arrival decides the tip sets, the fixed
\* delay MaxDelay - 1 and the proper range [0, 2 * dt) as well
DelayRanges ==
    { << d, d >> : d \in {0, MaxDelay} }
      \cup (IF sim = "tangle" THEN { << MaxDelay - 1, MaxDelay - 1 >>, << 0, 2 * dt >> } ELSE {})

\* the configured emission probability: 0 and 1/2 (lambdaPerProcess * dt is
\* capped at 1.0)
EmissionProbs == {0, 1}

\* the genesis node
TxGenesis == [id |-> 0, timestamp |-> 0, height |-> 0, parents |-> << >>, children |-> << >>]

\* no call of weighted_choice on its own
NoCall == [weights |-> << >>, called |-> FALSE, r |-> 0, result |-> -1]

InitCommon ==
    /\ pc = "open"
    /\ prIdx = 0
    /\ now = 0
    /\ simDuration \in {1, MaxDuration}
    /\ \E r \in DelayRanges : minDelay = r[1] /\ maxDelay = r[2]
    /\ pq = {}
    /\ out = << >>
    /\ outOk = FALSE
    /\ wc = NoCall

InitTangle ==
    /\ sim = "tangle"
    /\ InitCommon
    /\ numProcesses \in {1, NumProcesses}
    /\ txProb \in EmissionProbs
    /\ postProbPerStep = 0
    /\ mode \in TipSelectionMode
    /\ maxWitnesses = 0
    /\ nodeCap = MaxNodes
    /\ g_nodes = [k \in {0} |-> TxGenesis]
    /\ g_globalTips = {0}
    /\ g_messagesSent = 0
    /\ procs = [k \in 0..(numProcesses - 1) |-> [id |-> k, knownNodes |-> {0}, tipSet |-> {0}]]
    /\ creator = [k \in {0} |-> -1]
    /\ g_wnodes = << >>
    /\ g_globalLeaves = {}
    /\ wprocs = << >>

\* ---- tangle: the run function ---------------------------------------------
\* the line of column names
Header ==
    IF sim = "tangle"
    THEN "time,global_tips,avg_local_tips,min_local_tips,max_local_tips,total_nodes,tip_ratio,messages_sent"
    ELSE "time,global_leaves,total_nodes"

\* the open without the return on failure
OpenOutputNoReturn ==
    /\ pc = "open"
    /\ \E ok \in BOOLEAN :
         /\ outOk' = ok
         /\ pc' = LoopHead(now)
         /\ out' = IF ok THEN << Header >> ELSE out
    /\ UNCHANGED << prIdx, now, cfgVars, wc, tangleVars, witnessVars, pq, creator >>

\* std::ofstream out(outputPath); if (!out) return; out << header
OpenOutput ==
    /\ pc = "open"
    /\ \E ok \in BOOLEAN :
         /\ outOk' = ok
         /\ pc' = IF ok THEN LoopHead(now) ELSE "aborted"
         /\ out' = IF ok THEN << Header >> ELSE out
    /\ UNCHANGED << prIdx, now, cfgVars, wc, tangleVars, witnessVars, pq, creator >>

TangleDeliver ==
    /\ sim = "tangle" /\ pc = "deliver" /\ Due
    /\ \E m \in Tops :
         /\ pq' = pq \ {m}
         /\ IF m.nodeId < 0 \/ m.nodeId >= Size(g_nodes)
            THEN UNCHANGED procs
            ELSE procs' = [procs EXCEPT ![m.receiverId] = processReceiveNode(g_nodes, @, m.nodeId)]
    /\ UNCHANGED << pc, prIdx, now, cfgVars, wc, g_nodes, g_globalTips, g_messagesSent,
                    witnessVars, out, outOk, creator >>

EndDeliver ==
    /\ pc = "deliver" /\ ~Due
    /\ pc' = "create"
    /\ prIdx' = 0
    /\ UNCHANGED << now, cfgVars, wc, tangleVars, witnessVars, pq, out, outOk, creator >>

\* the emission test with r <= p
emitsAtEqual(r, p) == r <= p

\* if (r < txProb), if (r < postProbPerStep)
emits(r, p) == r < p

NextPr(n) ==
    /\ prIdx' = IF prIdx + 1 < n THEN prIdx + 1 ELSE 0
    /\ pc' = IF prIdx + 1 < n THEN "create" ELSE "metrics"

\* the id taken from the index of the last node instead of the size
newNodeIdLast(nodes) == Size(nodes) - 1

\* int newId = static_cast<int>(nodes.size())
newNodeId(nodes) == Size(nodes)

MaxHeight(nodes, tips) ==
    LET hs == {nodes[tips[k]].height : k \in DOMAIN tips} \cup {0} IN MaxOf(hs)

RECURSIVE AppendChildBack(_, _, _, _)
\* the link made the other way round: g_nodes[newId].children.push_back(p)
AppendChildBack(nodes, tips, k, newId) ==
    IF k > Len(tips) THEN nodes
    ELSE AppendChildBack([nodes EXCEPT ![newId].children = Append(@, tips[k])], tips, k + 1, newId)

\* one push_back per distinct parent instead of one per entry of tips
AppendChildOnce(nodes, tips, k, newId) ==
    [q \in DOMAIN nodes |-> IF q \in Range(tips)
                            THEN [nodes[q] EXCEPT !.children = Append(@, newId)]
                            ELSE nodes[q]]

RECURSIVE AppendChild(_, _, _, _)
\* for (int p : tips) g_nodes[p].children.push_back(newId), from position k on
AppendChild(nodes, tips, k, newId) ==
    IF k > Len(tips) THEN nodes
    ELSE AppendChild([nodes EXCEPT ![tips[k]].children = Append(@, newId)], tips, k + 1, newId)

\* processReceiveNode applied to every process instead of the creator only
senderLearnsAll(nodes, ps, k, newId) ==
    [q \in DOMAIN ps |-> processReceiveNode(nodes, ps[q], newId)]

\* the creation step without the call processReceiveNode(pr, newId)
senderLearnsNothing(nodes, ps, k, newId) == ps

\* processReceiveNode(pr, newId): the creator learns its own node at once
senderLearns(nodes, ps, k, newId) ==
    [ps EXCEPT ![k] = processReceiveNode(nodes, ps[k], newId)]

TangleCreate ==
    /\ sim = "tangle" /\ pc = "create" /\ Size(g_nodes) < nodeCap
    /\ \E r \in uniform_double(0, One) : emits(r, txProb)
    /\ LET newId == newNodeId(g_nodes) IN
       \E tips \in selectTips(g_nodes, procs[prIdx], mode) :
         LET node == [id |-> newId, timestamp |-> now, height |-> MaxHeight(g_nodes, tips) + 1,
                      parents |-> tips, children |-> << >>]
             nodes2 == AppendChild(PushBack(g_nodes, node), tips, 1, newId)
         IN  /\ g_nodes' = nodes2
             /\ g_globalTips' = (g_globalTips \ Range(tips)) \cup {newId}
             /\ procs' = senderLearns(nodes2, procs, prIdx, newId)
             /\ creator' = PushBack(creator, procs[prIdx].id)
             /\ \E msgs \in broadcastOutcomes(newId, procs[prIdx].id, numProcesses) :
                  /\ pq' = pq \cup msgs
                  /\ g_messagesSent' = g_messagesSent + Cardinality(msgs)
    /\ NextPr(numProcesses)
    /\ UNCHANGED << now, cfgVars, wc, witnessVars, out, outOk >>

\* r >= txProb: the process creates nothing in this step
TangleSkip ==
    /\ sim = "tangle" /\ pc = "create"
    /\ \E r \in uniform_double(0, One) : ~emits(r, txProb)
    /\ NextPr(numProcesses)
    /\ UNCHANGED << now, cfgVars, wc, tangleVars, witnessVars, pq, out, outOk, creator >>

RECURSIVE totalLocalTips(_, _)
\* the sum of tipSet.size() over procs[0 .. k-1]
totalLocalTips(ps, k) ==
    IF k = 0 THEN 0 ELSE totalLocalTips(ps, k - 1) + Cardinality(ps[k - 1].tipSet)

\* the metrics line of a tangle run; a quotient of doubles is the pair
\* << numerator, denominator >>
TangleRow ==
    LET counts == { Cardinality(procs[p].tipSet) : p \in DOMAIN procs }
        totalNodes == Size(g_nodes)
        globalTips == Cardinality(g_globalTips)
    IN  [time |-> now,
         global_tips |-> globalTips,
         avg_local_tips |-> << totalLocalTips(procs, Size(procs)), numProcesses >>,
         min_local_tips |-> MinOf(counts),
         max_local_tips |-> MaxOf(counts \cup {0}),
         total_nodes |-> totalNodes,
         tip_ratio |-> IF totalNodes > 0 THEN << globalTips, totalNodes >> ELSE << 0, 1 >>,
         messages_sent |-> g_messagesSent]

\* the metrics line of a witness run with the leaf count in both columns
WitnessRowLeaves ==
    [time |-> now, global_leaves |-> Cardinality(g_globalLeaves),
     total_nodes |-> Cardinality(g_globalLeaves)]

\* the metrics line of a witness run
WitnessRow ==
    [time |-> now, global_leaves |-> Cardinality(g_globalLeaves), total_nodes |-> Size(g_wnodes)]

Metrics ==
    /\ pc = "metrics"
    /\ out' = IF outOk THEN Append(out, IF sim = "tangle" THEN TangleRow ELSE WitnessRow) ELSE out
    /\ now' = now + dt
    /\ pc' = LoopHead(now')
    /\ UNCHANGED << prIdx, cfgVars, wc, tangleVars, witnessVars, pq, outOk, creator >>

\* ---- witness: helpers ----------------------------------------------------
WGenesis == [id |-> 0, owner |-> -1, timestamp |-> 0, parents |-> << >>, children |-> << >>,
             isLeaf |-> TRUE]

processReceiveBlock(proc, nodeId) ==
    [proc EXCEPT !.knownBlocks = @ \cup {nodeId}]

\* the body of selectWitnesses' loop over proc.knownBlocks, for one block
scanBlock(nodes, proc, best, bid) ==
    IF bid < 0 \/ bid >= Size(nodes) THEN best
    ELSE IF nodes[bid].owner < 0 THEN best
    ELSE IF nodes[bid].owner = proc.id THEN best
    ELSE IF nodes[bid].timestamp > best.bestTs[nodes[bid].owner]
         THEN [bestBlock |-> [u \in DOMAIN best.bestBlock |->
                                 IF u = nodes[bid].owner THEN bid ELSE best.bestBlock[u]],
               bestTs |-> [u \in DOMAIN best.bestTs |->
                              IF u = nodes[bid].owner THEN nodes[bid].timestamp ELSE best.bestTs[u]]]
         ELSE best

RECURSIVE scanKnown(_, _, _, _)
\* the loop over proc.knownBlocks: the results over every iteration order of
\* the unordered_set
scanKnown(nodes, proc, todo, best) ==
    IF todo = {} THEN {best}
    ELSE UNION { scanKnown(nodes, proc, todo \ {bid}, scanBlock(nodes, proc, best, bid)) : bid \in todo }

RECURSIVE collectCands(_, _, _, _)
\* the loop over owner = k .. numUsers-1 that fills cands
collectCands(proc, best, k, numUsers) ==
    IF k >= numUsers THEN << >>
    ELSE IF k # proc.id /\ best.bestBlock[k] # -1
         THEN << [owner |-> k, blockId |-> best.bestBlock[k], ts |-> best.bestTs[k]] >>
              \o collectCands(proc, best, k + 1, numUsers)
         ELSE collectCands(proc, best, k + 1, numUsers)

\* the sort with the comparator a.ts < b.ts (oldest first)
sortedByAge(cands) ==
    LET n == Len(cands)
        perms == { f \in [1..n -> 1..n] : \A a, b \in 1..n : a # b => f[a] # f[b] }
    IN  { [k \in 1..n |-> cands[f[k]]] : f \in
            { g \in perms : \A a, b \in 1..n : a < b => ~(cands[g[b]].ts < cands[g[a]].ts) } }

\* std::sort(cands, a.ts > b.ts): every arrangement of cands that the
\* comparator accepts as sorted (the sort is not stable)
sortedByRecency(cands) ==
    LET n == Len(cands)
        perms == { f \in [1..n -> 1..n] : \A a, b \in 1..n : a # b => f[a] # f[b] }
    IN  { [k \in 1..n |-> cands[f[k]]] : f \in
            { g \in perms : \A a, b \in 1..n : a < b => ~(cands[g[b]].ts > cands[g[a]].ts) } }

RECURSIVE takeWitnessesOneMore(_, _, _, _)
\* takeWitnesses stopping at witnesses.size() > maxW
takeWitnessesOneMore(cands, k, witnesses, maxW) ==
    IF k > Len(cands) THEN witnesses
    ELSE IF Len(witnesses) > maxW THEN witnesses
    ELSE takeWitnessesOneMore(cands, k + 1, Append(witnesses, cands[k].blockId), maxW)

RECURSIVE takeWitnesses(_, _, _, _)
\* the loop that copies block ids until witnesses.size() >= maxW
takeWitnesses(cands, k, witnesses, maxW) ==
    IF k > Len(cands) THEN witnesses
    ELSE IF Len(witnesses) >= maxW THEN witnesses
    ELSE takeWitnesses(cands, k + 1, Append(witnesses, cands[k].blockId), maxW)

\* std::vector<int> bestBlock(g_numUsers, -1); std::vector<double> bestTs(g_numUsers, -1.0)
noBest(numUsers) ==
    [bestBlock |-> [u \in 0..(numUsers - 1) |-> -1], bestTs |-> [u \in 0..(numUsers - 1) |-> -1]]

\* selectWitnesses(proc, maxWitnesses): the set of vectors the call can return
selectWitnesses(nodes, proc, maxW, numUsers) ==
    UNION { { takeWitnesses(sorted, 1, << >>, maxW)
              : sorted \in sortedByRecency(collectCands(proc, scanned, 0, numUsers)) }
            : scanned \in scanKnown(nodes, proc, proc.knownBlocks, noBest(numUsers)) }

RECURSIVE linkParentsKeepLeaf(_, _, _, _)
\* linkParents with the erase from the leaf set left out
linkParentsKeepLeaf(st, parents, k, newId) ==
    IF k > Len(parents) THEN st
    ELSE LET p == parents[k]
             n1 == [st.nodes EXCEPT ![p].children = Append(@, newId)]
         IN  linkParentsKeepLeaf(IF n1[p].isLeaf
                                 THEN [nodes |-> [n1 EXCEPT ![p].isLeaf = FALSE], leaves |-> st.leaves]
                                 ELSE [nodes |-> n1, leaves |-> st.leaves],
                                 parents, k + 1, newId)

RECURSIVE linkParents(_, _, _, _)
\* for (int p : parents): children.push_back(newId); clear isLeaf, erase from
\* the leaf set.  Works on the pair (nodes, leaves).
linkParents(st, parents, k, newId) ==
    IF k > Len(parents) THEN st
    ELSE LET p == parents[k]
             n1 == [st.nodes EXCEPT ![p].children = Append(@, newId)]
         IN  linkParents(IF n1[p].isLeaf
                         THEN [nodes |-> [n1 EXCEPT ![p].isLeaf = FALSE], leaves |-> st.leaves \ {p}]
                         ELSE [nodes |-> n1, leaves |-> st.leaves],
                         parents, k + 1, newId)

InitWitness ==
    /\ sim = "witness"
    /\ InitCommon
    /\ numProcesses = 0
    /\ txProb = 0
    /\ postProbPerStep \in EmissionProbs
    /\ mode = "NONE"
    /\ maxWitnesses \in {0, MaxWitnessCap - 1, MaxWitnessCap}
    /\ nodeCap = MaxBlocks
    /\ g_wnodes = [k \in {0} |-> WGenesis]
    /\ g_globalLeaves = {0}
    /\ wprocs = [k \in 0..(NumUsers - 1) |-> [id |-> k, lastBlockId |-> -1, knownBlocks |-> {0}]]
    /\ creator = [k \in {0} |-> -1]
    /\ g_nodes = << >>
    /\ g_globalTips = {}
    /\ g_messagesSent = 0
    /\ procs = << >>

\* ---- witness: the run function ---------------------------------------------
WitnessDeliver ==
    /\ sim = "witness" /\ pc = "deliver" /\ Due
    /\ \E m \in Tops :
         /\ pq' = pq \ {m}
         /\ IF m.nodeId < 0 \/ m.nodeId >= Size(g_wnodes)
            THEN UNCHANGED wprocs
            ELSE wprocs' = [wprocs EXCEPT ![m.receiverId] = processReceiveBlock(@, m.nodeId)]
    /\ UNCHANGED << pc, prIdx, now, cfgVars, wc, tangleVars, g_wnodes, g_globalLeaves,
                    out, outOk, creator >>

\* the own-chain parent taken to be genesis for every block
ownParentGenesis(pr) == 0

\* own chain parent: last own block or genesis
ownParent(pr) == IF pr.lastBlockId # -1 THEN pr.lastBlockId ELSE 0

\* the user state update that sets lastBlockId for the user's first block only
userPostedFirstOnly(pr, newId) ==
    [pr EXCEPT !.lastBlockId = IF pr.lastBlockId = -1 THEN newId ELSE pr.lastBlockId,
               !.knownBlocks = pr.knownBlocks \cup {newId}]

\* pr.lastBlockId = newId; pr.knownBlocks.insert(newId)
userPosted(pr, newId) ==
    [pr EXCEPT !.lastBlockId = newId, !.knownBlocks = pr.knownBlocks \cup {newId}]

WitnessCreate ==
    /\ sim = "witness" /\ pc = "create" /\ Size(g_wnodes) < nodeCap
    /\ \E r \in uniform_double(0, One) : emits(r, postProbPerStep)
    /\ LET newId == newNodeId(g_wnodes)
           pr == wprocs[prIdx]
           own == ownParent(pr)
       IN
       \E witnesses \in selectWitnesses(g_wnodes, pr, maxWitnesses, NumUsers) :
         LET node == [id |-> newId, owner |-> pr.id, timestamp |-> now,
                      parents |-> << own >> \o SelectSeq(witnesses, LAMBDA w : w # own),
                      children |-> << >>, isLeaf |-> TRUE]
             st == linkParents([nodes |-> PushBack(g_wnodes, node), leaves |-> g_globalLeaves],
                               node.parents, 1, newId)
         IN  /\ g_wnodes' = [st.nodes EXCEPT ![newId].isLeaf = TRUE]
             /\ g_globalLeaves' = st.leaves \cup {newId}
             /\ wprocs' = [wprocs EXCEPT ![prIdx] = userPosted(pr, newId)]
             /\ creator' = PushBack(creator, pr.id)
             /\ \E msgs \in broadcastOutcomes(newId, pr.id, NumUsers) :
                  /\ pq' = pq \cup msgs
    /\ NextPr(NumUsers)
    /\ UNCHANGED << now, cfgVars, wc, tangleVars, out, outOk >>

\* r >= postProbPerStep: the user posts nothing in this step
WitnessSkip ==
    /\ sim = "witness" /\ pc = "create"
    /\ \E r \in uniform_double(0, One) : ~emits(r, postProbPerStep)
    /\ NextPr(NumUsers)
    /\ UNCHANGED << now, cfgVars, wc, tangleVars, witnessVars, pq, out, outOk, creator >>

Init == InitTangle \/ InitWitness

Next ==
    \/ OpenOutput
    \/ TangleDeliver
    \/ WitnessDeliver
    \/ EndDeliver
    \/ TangleCreate
    \/ TangleSkip
    \/ WitnessCreate
    \/ WitnessSkip
    \/ Metrics

Spec == Init /\ [][Next]_vars

\* the runs with a fixed positive delay: the loop control reads now and
\* simDuration only, and the drain loop ends whatever the delivery times are
InitFixedDelay == Init /\ minDelay = maxDelay /\ minDelay > 0

\* the run function is one thread that takes its next step as long as it has one
SpecLive == InitFixedDelay /\ [][Next]_vars /\ WF_vars(Next)

\* ---- weighted_choice on its own ---------------------------------------------
\* the weights vectors: up to MaxWeights weights, each 0, 1, ..., MaxWeight;
\* weights and draws are in units of 1/2, so that a draw can fall on a
\* cumulative sum or strictly between two
WeightVectors ==
    UNION { [1..n -> { 2 * w : w \in 0..MaxWeight }] : n \in 0..MaxWeights }

InitChoice ==
    /\ sim = "none"
    /\ pc = "choice"
    /\ prIdx = 0 /\ now = 0 /\ simDuration = 0 /\ minDelay = 0 /\ maxDelay = 0
    /\ numProcesses = 0 /\ txProb = 0 /\ postProbPerStep = 0
    /\ mode = "NONE" /\ maxWitnesses = 0 /\ nodeCap = 0
    /\ g_nodes = << >> /\ g_globalTips = {} /\ g_messagesSent = 0 /\ procs = << >>
    /\ g_wnodes = << >> /\ g_globalLeaves = {} /\ wprocs = << >>
    /\ pq = {} /\ out = << >> /\ outOk = FALSE
    /\ creator = << >>
    /\ \E w \in WeightVectors : wc = [weights |-> w, called |-> FALSE, r |-> 0, result |-> -1]

\* int idx = weighted_choice(weights, rng)
ChoiceCall ==
    /\ pc = "choice"
    /\ ~wc.called
    /\ LET n == Len(wc.weights)
           sum == SumTo(wc.weights, n)
       IN  IF n = 0 \/ sum <= 0
           THEN \E idx \in weighted_choice(wc.weights) :
                  wc' = [wc EXCEPT !.called = TRUE, !.result = idx]
           ELSE \E r \in uniform_double(0, sum) :
                  wc' = [wc EXCEPT !.called = TRUE, !.r = r,
                                   !.result = scanWeights(wc.weights, r, 0, 0)]
    /\ UNCHANGED << pc, prIdx, now, cfgVars, tangleVars, witnessVars, pq, out, outOk, creator >>

SpecChoice == InitChoice /\ [][ChoiceCall]_vars

\* a tangle run alone
NextTangle ==
    \/ OpenOutput
    \/ TangleDeliver
    \/ EndDeliver
    \/ TangleCreate
    \/ TangleSkip
    \/ Metrics

SpecTangle == InitTangle /\ [][NextTangle]_vars

\* ---- a tangle run of biased walks under delays of several steps ----------------
\* two processes, MCMC_ONLY, emission probability 1/2, delays of [0, 3 * dt),
\* and one node more than in the other runs: a process can then hold a node
\* whose two parents it has received one of
InitWalk ==
    /\ sim = "tangle"
    /\ pc = "open" /\ prIdx = 0 /\ now = 0
    /\ simDuration = MaxDuration
    /\ minDelay = 0 /\ maxDelay = 3 * dt
    /\ numProcesses = 2
    /\ txProb = 1
    /\ postProbPerStep = 0
    /\ mode = "MCMC_ONLY"
    /\ maxWitnesses = 0
    /\ nodeCap = MaxNodes + 1
    /\ g_nodes = [k \in {0} |-> TxGenesis]
    /\ g_globalTips = {0}
    /\ g_messagesSent = 0
    /\ procs = [k \in 0..(numProcesses - 1) |-> [id |-> k, knownNodes |-> {0}, tipSet |-> {0}]]
    /\ creator = [k \in {0} |-> -1]
    /\ g_wnodes = << >>
    /\ g_globalLeaves = {}
    /\ wprocs = << >>
    /\ pq = {}
    /\ out = << >>
    /\ outOk = FALSE
    /\ wc = NoCall

SpecWalk == InitWalk /\ [][NextTangle]_vars

\* ---- a run next to another run of the same program ---------------------------
\* g_nodes, g_globalTips and g_messagesSent are statics of the translation unit:
\* every call of runTangleSimulation works on the same three objects

\* every node id this run holds, in a process's view or in a message, is in g_nodes
Intact ==
    /\ \A p \in DOMAIN procs : procs[p].knownNodes \subseteq DOMAIN g_nodes
    /\ \A m \in pq : m.nodeId \in DOMAIN g_nodes

\* another call of runTangleSimulation begins while this run is in its loop:
\* g_nodes.clear(); g_globalTips.clear(); g_messagesSent = 0; and the genesis
\* pushed. The accesses race with this run's; of the outcomes of the race, the
\* one followed is the other call's statements taking effect between two phases
\* of this run.
OtherRunStarts ==
    /\ sim = "tangle"
    /\ pc \in {"deliver", "create", "metrics"}
    /\ g_nodes' = [k \in {0} |-> TxGenesis]
    /\ g_globalTips' = {0}
    /\ g_messagesSent' = 0
    /\ UNCHANGED << pc, prIdx, now, cfgVars, wc, procs, witnessVars, pq, out, outOk, creator >>

\* this run goes on; once a node id it holds is gone from g_nodes, g_nodes[id]
\* is an access out of range in the drain and the creation phases, and only the
\* metrics block, which reads sizes, is followed
NextSweep ==
    \/ Intact /\ NextTangle
    \/ OtherRunStarts
    \/ ~Intact /\ Metrics

SpecSweep == InitTangle /\ [][NextSweep]_vars

\* a witness run alone
NextWitness ==
    \/ OpenOutput
    \/ WitnessDeliver
    \/ EndDeliver
    \/ WitnessCreate
    \/ WitnessSkip
    \/ Metrics

SpecWitness == InitWitness /\ [][NextWitness]_vars

\* ---- the graph and the views, for the properties ---------------------------
Nodes == IF sim = "tangle" THEN g_nodes ELSE g_wnodes
NodeIds == DOMAIN Nodes
Participants == IF sim = "tangle" THEN DOMAIN procs ELSE DOMAIN wprocs
Known(q) == IF sim = "tangle" THEN procs[q].knownNodes ELSE wprocs[q].knownBlocks
ChildrenOf(n) == Range(Nodes[n].children)
ParentsOf(n) == Range(Nodes[n].parents)

TimeOf(n) == Nodes[n].timestamp
\* the messages in the queue that carry node n to participant q
Pending(q, n) == { m \in pq : m.receiverId = q /\ m.nodeId = n }
\* the drain phase of the step at time now is over
Drained == pc \in {"create", "metrics"}

\* C1: in a tangle run, in every state and for every process p and node n, n is
\* in p's tipSet iff n is in p's knownNodes and no child of n is in p's
\* knownNodes; the tipSet holds nothing but node ids.
C1_TipSetCorrect ==
    sim = "tangle" =>
        \A p \in DOMAIN procs :
            /\ procs[p].tipSet \subseteq DOMAIN g_nodes
            /\ \A n \in DOMAIN g_nodes :
                 n \in procs[p].tipSet <=>
                    /\ n \in procs[p].knownNodes
                    /\ ~ \E c \in Range(g_nodes[n].children) : c \in procs[p].knownNodes

\* a process knows a child but not yet its parent: the child was delivered first
C1_Witness ==
    /\ sim = "tangle"
    /\ \E p \in DOMAIN procs : \E n \in DOMAIN g_nodes : \E c \in Range(g_nodes[n].children) :
         /\ c \in procs[p].knownNodes
         /\ n \notin procs[p].knownNodes
         /\ c \in procs[p].tipSet

\* C2: in both modes a node id is in the global tip/leaf set iff the node's
\* children list is empty; in a witness run isLeaf agrees with membership.
C2_GlobalLeafCorrect ==
    /\ sim = "tangle" =>
         /\ g_globalTips \subseteq DOMAIN g_nodes
         /\ \A n \in DOMAIN g_nodes : n \in g_globalTips <=> g_nodes[n].children = << >>
    /\ sim = "witness" =>
         /\ g_globalLeaves \subseteq DOMAIN g_wnodes
         /\ \A n \in DOMAIN g_wnodes :
              /\ n \in g_globalLeaves <=> g_wnodes[n].children = << >>
              /\ g_wnodes[n].isLeaf <=> n \in g_globalLeaves

\* a block that was a leaf and has since been referenced by two later blocks
C2_Witness ==
    /\ sim = "witness"
    /\ \E n \in DOMAIN g_wnodes :
         n > 0 /\ Len(g_wnodes[n].children) >= 2 /\ ~ g_wnodes[n].isLeaf /\ n \notin g_globalLeaves

\* C3: in both modes every node's id is its index in the arena, every parent id
\* is strictly less than the node's id, and genesis has no parents.
C3_Acyclic ==
    /\ \A n \in NodeIds :
         /\ Nodes[n].id = n
         /\ \A p \in ParentsOf(n) : p >= 0 /\ p < n
    /\ Nodes[0].parents = << >>

\* a node whose parent is itself a non-genesis node
C3_Witness ==
    \E n \in NodeIds : \E p \in ParentsOf(n) : p > 0 /\ p < n

\* C4: with a fixed delay d (minDelay = maxDelay = d), a participant other than
\* the creator never knows a node created at time t while now < t + d, and it
\* knows the node as soon as the drain phase of a later step with time >= t + d
\* is over: the node arrives in the first step after its creation whose time
\* is >= t + d.
C4_FixedDelayArrival ==
    minDelay = maxDelay =>
        \A n \in NodeIds \ {0} : \A q \in Participants \ {creator[n]} :
            /\ n \in Known(q) => TimeOf(n) + minDelay <= now
            /\ (Drained /\ TimeOf(n) < now /\ TimeOf(n) + minDelay <= now) => n \in Known(q)

\* a fixed delay that does not fall on a step, and a node that has arrived
C4_Witness ==
    /\ minDelay = maxDelay
    /\ minDelay % dt # 0
    /\ \E n \in NodeIds \ {0} : \E q \in Participants \ {creator[n]} : n \in Known(q)


\* an event is either pending or consumed, never both, and the creator gets
\* none: the queue holds at most one event per node and receiver, none for a
\* node the receiver knows, and one for every node a participant other than
\* the creator does not know
C5_PendingOrConsumed ==
    /\ \A m \in pq :
         /\ m.nodeId \in NodeIds \ {0}
         /\ m.receiverId \in Participants \ {creator[m.nodeId]}
         /\ m.nodeId \notin Known(m.receiverId)
    /\ Cardinality({ << m.receiverId, m.nodeId >> : m \in pq }) = Cardinality(pq)
    /\ \A n \in NodeIds \ {0} : \A q \in Participants :
         n \in Known(q) \/ \E m \in pq : m.receiverId = q /\ m.nodeId = n

\* C5 as stated: every event scheduled by a broadcast is consumed exactly once,
\* so that when the run is over no event is left in the queue and every node
\* is known to every participant.
C5_EveryEventConsumed ==
    /\ C5_PendingOrConsumed
    /\ pc = "done" =>
          /\ pq = {}
          /\ \A n \in NodeIds : \A q \in Participants : n \in Known(q)

\* after a drain phase the queue holds only events that are not due yet or were
\* scheduled in this very step; so does the queue a finished run leaves behind
C5_DueConsumed ==
    /\ Drained => \A m \in pq : m.deliverTime > now \/ TimeOf(m.nodeId) = now
    /\ pc = "done" => \A m \in pq : m.deliverTime > now - dt \/ TimeOf(m.nodeId) = now - dt

\* a step that takes an event from the queue takes one event, which is due, in
\* the drain phase, and adds its node to the receiver's knowledge set, which
\* did not hold it; nothing else is learnt in such a step, and in any other
\* step a participant learns no node but the one it creates
C5_ConsumeStep ==
    IF pq \subseteq pq'
    THEN \A q \in Participants : \A n \in Known(q)' \ Known(q) :
           n \notin NodeIds /\ creator'[n] = q
    ELSE /\ pc = "deliver"
         /\ \E m \in pq \ pq' :
              /\ pq' = pq \ {m}
              /\ m.deliverTime <= now
              /\ m.nodeId \notin Known(m.receiverId)
              /\ \A q \in Participants :
                   Known(q)' = IF q = m.receiverId THEN Known(q) \cup {m.nodeId} ELSE Known(q)

\* C5, amended: every event is consumed at most once and never before its
\* deliverTime; it is consumed exactly once, in the drain phase of the first
\* step after its scheduling whose time is >= deliverTime, if the run has such
\* a step, and otherwise it is still in the queue when the run ends.
C5_ConsumedOnceIfDue ==
    [](C5_PendingOrConsumed /\ C5_DueConsumed) /\ [][C5_ConsumeStep]_vars

\* a finished run that has consumed an event and has left another in the queue
C5_Witness ==
    /\ pc = "done"
    /\ pq # {}
    /\ \E n \in NodeIds \ {0} : \E q \in Participants \ {creator[n]} : n \in Known(q)

\* C6: a node created in the step at time now is known to nobody but its
\* creator during that step, whatever the delay; the views used in the
\* creation phase hold every event due at the beginning of the step; hence no
\* node has a parent that another participant created in the same step.
C6_SameStepInvisible ==
    /\ \A n \in NodeIds \ {0} : \A q \in Participants \ {creator[n]} :
         n \in Known(q) => TimeOf(n) < now
    /\ pc = "create" => \A m \in pq : m.deliverTime <= now => TimeOf(m.nodeId) = now
    /\ \A n \in NodeIds : \A p \in ParentsOf(n) \ {0} :
         creator[p] # creator[n] => TimeOf(p) < TimeOf(n)

\* with delay 0, two participants have created a node each in the current step
C6_Witness ==
    /\ maxDelay = 0
    /\ pc \in {"create", "metrics"}
    /\ \E n, m \in NodeIds \ {0} :
         /\ n < m /\ creator[n] # creator[m]
         /\ TimeOf(n) = now /\ TimeOf(m) = now
         /\ Pending(creator[m], n) # {}

\* C7: in a tangle run with mode RANDOM_ONLY, a step that creates a node gives
\* it two parents, both members of the creator's tipSet as it is when the
\* selection is made.
C7_ParentsFromTipSet ==
    [][ (sim = "tangle" /\ mode = "RANDOM_ONLY" /\ Size(g_nodes') > Size(g_nodes)) =>
          LET node == g_nodes'[Size(g_nodes)] IN
          /\ Len(node.parents) = 2
          /\ \A k \in 1..2 : node.parents[k] \in procs[prIdx].tipSet ]_vars

\* a RANDOM_ONLY run in which a node was attached to a tip other than genesis
C7_Witness ==
    /\ sim = "tangle" /\ mode = "RANDOM_ONLY"
    /\ \E n \in NodeIds : \E p \in ParentsOf(n) : p > 0

\* ---- witness runs ----------------------------------------------------------
\* the blocks of user u, in the graph
BlocksOf(u) == { b \in DOMAIN g_wnodes : g_wnodes[b].owner = u }
\* the earlier blocks of the owner of block b
EarlierOwn(b) == { c \in BlocksOf(g_wnodes[b].owner) : c < b }
\* the owners other than u of which u knows a block
KnownOwners(u) ==
    { g_wnodes[b].owner : b \in { c \in wprocs[u].knownBlocks : g_wnodes[c].owner \notin {-1, u} } }
\* the blocks of owner o that u knows and that are no older than any block of o
\* that u knows
LatestKnown(u, o) ==
    { b \in wprocs[u].knownBlocks \cap BlocksOf(o) :
        \A c \in wprocs[u].knownBlocks \cap BlocksOf(o) : g_wnodes[c].timestamp <= g_wnodes[b].timestamp }
Candidates(u) == UNION { LatestKnown(u, o) : o \in KnownOwners(u) }
NoDuplicate(seq) == \A a, b \in DOMAIN seq : a # b => seq[a] # seq[b]

\* C8: in a witness run with maxWitnesses = 0, every block that is not its
\* owner's first has exactly one parent, the owner's preceding block.
C8_SingleParentChain ==
    (sim = "witness" /\ maxWitnesses = 0) =>
        \A b \in DOMAIN g_wnodes \ {0} :
            EarlierOwn(b) # {} => g_wnodes[b].parents = << MaxOf(EarlierOwn(b)) >>

\* with maxWitnesses = 0, a second block of a user who, by the delay, knew a
\* block of another user when creating it
C8_Witness ==
    /\ sim = "witness" /\ maxWitnesses = 0
    /\ \E b \in DOMAIN g_wnodes \ {0} : \E c \in DOMAIN g_wnodes \ {0} :
         /\ EarlierOwn(b) # {}
         /\ g_wnodes[c].owner # g_wnodes[b].owner
         /\ g_wnodes[c].timestamp < g_wnodes[b].timestamp
         /\ g_wnodes[c].timestamp + maxDelay <= g_wnodes[b].timestamp

\* C9: when a user's turn to post comes, every vector selectWitnesses can
\* return for it has length min(maxWitnesses, number of other owners with a
\* block the user knows), holds for pairwise different owners that owner's most
\* recent block known to the user (one block per owner qualifies), never
\* genesis or an own block, is ordered by timestamp descending, and leaves out
\* no candidate strictly more recent than one it holds.
C9_WitnessSelection ==
    (sim = "witness" /\ pc = "create") =>
        LET u == prIdx
            n == Cardinality(KnownOwners(u))
        IN  /\ \A o \in KnownOwners(u) : Cardinality(LatestKnown(u, o)) = 1
            /\ \A w \in selectWitnesses(g_wnodes, wprocs[u], maxWitnesses, NumUsers) :
                 /\ Len(w) = IF maxWitnesses < n THEN maxWitnesses ELSE n
                 /\ \A k \in DOMAIN w :
                      /\ w[k] \in Candidates(u)
                      /\ g_wnodes[w[k]].owner \notin {-1, u}
                      /\ w[k] # 0
                 /\ \A a, b \in DOMAIN w : a # b => g_wnodes[w[a]].owner # g_wnodes[w[b]].owner
                 /\ \A a, b \in DOMAIN w : a < b => g_wnodes[w[a]].timestamp >= g_wnodes[w[b]].timestamp
                 /\ \A c \in Candidates(u) \ Range(w) : \A k \in DOMAIN w :
                      g_wnodes[c].timestamp <= g_wnodes[w[k]].timestamp

\* the turn of a user who knows blocks of two other owners with different
\* timestamps, two of one owner among them, and may take one witness only
C9_Witness ==
    /\ sim = "witness" /\ pc = "create" /\ maxWitnesses = 1
    /\ \E c, d \in Candidates(prIdx) : g_wnodes[c].timestamp < g_wnodes[d].timestamp
    /\ \E o \in KnownOwners(prIdx) : Cardinality(wprocs[prIdx].knownBlocks \cap BlocksOf(o)) >= 2

\* C10: a step that creates a block b for user u gives it the parents
\* lastBlockId(u) as before the step (genesis if -1) followed by a vector that
\* selectWitnesses returns for u in the state before the step; the list has no
\* duplicate and at most 1 + maxWitnesses entries; no step changes the parents
\* of an existing block.
C10_ParentList ==
    [][ sim = "witness" =>
          /\ \A n \in DOMAIN g_wnodes : g_wnodes'[n].parents = g_wnodes[n].parents
          /\ Size(g_wnodes') > Size(g_wnodes) =>
               LET b == g_wnodes'[Size(g_wnodes)]
                   u == wprocs[prIdx]
               IN  /\ b.owner = u.id
                   /\ Len(b.parents) >= 1
                   /\ b.parents[1] = (IF u.lastBlockId = -1 THEN 0 ELSE u.lastBlockId)
                   /\ Tail(b.parents) \in selectWitnesses(g_wnodes, u, maxWitnesses, NumUsers)
                   /\ NoDuplicate(b.parents)
                   /\ Len(b.parents) <= 1 + maxWitnesses ]_vars

\* a block whose first parent is its owner's previous block and which has a
\* witness as well
C10_Witness ==
    /\ sim = "witness"
    /\ \E b \in DOMAIN g_wnodes \ {0} :
         /\ Len(g_wnodes[b].parents) >= 2
         /\ g_wnodes[b].parents[1] > 0
         /\ g_wnodes[g_wnodes[b].parents[1]].owner = g_wnodes[b].owner

\* ---- the output -------------------------------------------------------------
\* the metrics rows written so far (the lines after the header), 1-based
Rows == IF out = << >> THEN << >> ELSE Tail(out)
\* numProcesses of a tangle run, numUsers of a witness run
NumParticipants == Cardinality(Participants)

\* C11: from one metrics row to the next total_nodes never decreases and grows
\* by at most the number of participants; no participant has created two nodes
\* in one step.
C11_TotalNodesMonotone ==
    /\ \A k \in 1..(Len(Rows) - 1) :
         /\ Rows[k + 1].total_nodes >= Rows[k].total_nodes
         /\ Rows[k + 1].total_nodes - Rows[k].total_nodes <= NumParticipants
    /\ \A n, m \in NodeIds \ {0} :
         (n # m /\ TimeOf(n) = TimeOf(m)) => creator[n] # creator[m]

\* two consecutive rows between which every one of at least two participants
\* has created a node
C11_Witness ==
    /\ NumParticipants >= 2
    /\ \E k \in 1..(Len(Rows) - 1) :
         Rows[k + 1].total_nodes - Rows[k].total_nodes = NumParticipants

\* the rows are those of the times 0, dt, 2 dt, ... in this order, no more than
\* one per step up to simDuration, and a finished run has written one for
\* every step k dt <= simDuration
C13_RowCadence ==
    /\ \A k \in 1..Len(Rows) : Rows[k].time = (k - 1) * dt
    /\ Len(Rows) <= (simDuration \div dt) + 1
    /\ pc = "done" => Len(Rows) = (simDuration \div dt) + 1
    /\ pc \in {"open", "aborted"} => out = << >>

\* C13: a run whose output file has opened terminates, whatever the draws, and
\* has then written exactly one row for each of the times 0, 1, ...,
\* floor(simDuration), in increasing order.
C13_TerminatesWithRows ==
    /\ []C13_RowCadence
    /\ (out # << >>) ~> (pc = "done")

\* a finished run of three steps in which a node was created
C13_Witness ==
    /\ pc = "done"
    /\ Len(Rows) >= 3
    /\ Size(Nodes) > 1

\* C14: a tangle run with numProcesses = 1, emission probability 0 and
\* simDuration = 2 (floor(simDuration) = 2) writes, whatever the draws, rows
\* for the times 0, 1, 2 only, each with global_tips = 1, total_nodes = 1,
\* tip_ratio = 1 and messages_sent = 0, and has written exactly 3 when it ends.
C14_NoActivity ==
    (sim = "tangle" /\ numProcesses = 1 /\ txProb = 0 /\ simDuration \div dt = 2) =>
        /\ Len(Rows) <= 3
        /\ pc = "done" => Len(Rows) = 3
        /\ \A k \in 1..Len(Rows) :
             /\ Rows[k].time = (k - 1) * dt
             /\ Rows[k].global_tips = 1
             /\ Rows[k].total_nodes = 1
             /\ Rows[k].tip_ratio[1] = Rows[k].tip_ratio[2]
             /\ Rows[k].messages_sent = 0

\* such a run, finished, with its three rows
C14_Witness ==
    /\ sim = "tangle" /\ numProcesses = 1 /\ txProb = 0 /\ simDuration \div dt = 2
    /\ pc = "done"
    /\ Len(Rows) = 3

\* every knowledge set holds ids of existing nodes only, holds genesis, and
\* holds every node its participant has created
C15_KnownExisting ==
    \A q \in Participants :
        /\ Known(q) \subseteq NodeIds
        /\ 0 \in Known(q)
        /\ \A n \in NodeIds \ {0} : creator[n] = q => n \in Known(q)

\* C15: in both modes and in every state, every participant's knowledge set is
\* a subset of the ids of the existing nodes, holds genesis and every node the
\* participant has created; no step removes an element from it.
C15_KnowledgeSet ==
    /\ []C15_KnownExisting
    /\ [][\A q \in Participants : Known(q) \subseteq Known(q)']_vars

\* a participant that knows a node of its own and a node of another participant
C15_Witness ==
    \E q \in Participants : \E n, m \in Known(q) \ {0} :
        creator[n] = q /\ creator[m] # q

\* C16: in a witness run and in every state, lastBlockId of user u is -1 if no
\* block has owner u and is otherwise the greatest id among u's blocks; the
\* first parent of a block is its owner's preceding block, genesis for the
\* owner's first block, so that the blocks of a user form one chain.
C16_LastBlockId ==
    sim = "witness" =>
        /\ \A u \in DOMAIN wprocs :
             wprocs[u].lastBlockId =
                 IF BlocksOf(wprocs[u].id) = {} THEN -1 ELSE MaxOf(BlocksOf(wprocs[u].id))
        /\ \A b \in DOMAIN g_wnodes \ {0} :
             /\ g_wnodes[b].owner \in DOMAIN wprocs
             /\ g_wnodes[b].parents[1] =
                    IF EarlierOwn(b) = {} THEN 0 ELSE MaxOf(EarlierOwn(b))

\* a user with two blocks, between which another user has posted, and a user
\* with none
C16_Witness ==
    /\ sim = "witness"
    /\ \E u, v \in DOMAIN wprocs : \E a, b, c \in DOMAIN g_wnodes :
         /\ a < c /\ c < b
         /\ g_wnodes[a].owner = u /\ g_wnodes[b].owner = u
         /\ g_wnodes[c].owner \notin {-1, u}
         /\ wprocs[v].lastBlockId = -1

\* the counter and every row agree with the number of nodes created
C17_MessagesCounted ==
    sim = "tangle" =>
        /\ g_messagesSent = (Size(g_nodes) - 1) * (numProcesses - 1)
        /\ g_messagesSent = Cardinality(pq)
                            + Cardinality({ << q, n >> \in (DOMAIN procs) \X (DOMAIN g_nodes \ {0}) :
                                              q # creator[n] /\ n \in procs[q].knownNodes })
        /\ \A k \in 1..Len(Rows) :
             Rows[k].messages_sent = (Rows[k].total_nodes - 1) * (numProcesses - 1)
        /\ \A k \in 1..(Len(Rows) - 1) : Rows[k + 1].messages_sent >= Rows[k].messages_sent

\* a step that creates a node pushes one event for each process other than the
\* creator and none for the creator, and counts them; no step lowers the counter
C17_BroadcastStep ==
    sim = "tangle" =>
        /\ g_messagesSent' >= g_messagesSent
        /\ g_messagesSent' - g_messagesSent = Cardinality(pq' \ pq)
        /\ Size(g_nodes') > Size(g_nodes) =>
             /\ pq \subseteq pq'
             /\ \A m \in pq' \ pq : m.nodeId = Size(g_nodes) /\ m.receiverId # procs[prIdx].id
             /\ \A q \in DOMAIN procs \ {prIdx} :
                  Cardinality({ m \in pq' \ pq : m.receiverId = procs[q].id }) = 1
        /\ Size(g_nodes') = Size(g_nodes) => pq' \subseteq pq

\* C17: in a tangle run every node creation schedules exactly one event for
\* every process other than the creator and none for the creator;
\* messages_sent, in the counter and in every row, is the number of events
\* scheduled since the start, (total_nodes - 1) * (numProcesses - 1), and never
\* decreases.
C17_MessageAccounting ==
    /\ []C17_MessagesCounted
    /\ [][C17_BroadcastStep]_vars

\* a row written after two creations by processes that have a peer
C17_Witness ==
    /\ sim = "tangle" /\ numProcesses >= 2
    /\ \E k \in 1..Len(Rows) : Rows[k].total_nodes >= 3 /\ Rows[k].messages_sent > 0

\* a run whose output could not be opened has written nothing, has created no
\* node and has scheduled no event, and it is in its first timestep no more
\* than it was before the open; a run that has ended has written all its rows
\* or none
C18_NothingWithoutOutput ==
    /\ (pc # "open" /\ ~outOk) =>
         /\ pc = "aborted"
         /\ out = << >>
         /\ now = 0
         /\ Size(Nodes) = 1
         /\ pq = {}
         /\ sim = "tangle" => g_messagesSent = 0
    /\ pc = "aborted" => ~outOk
    /\ pc \in {"done", "aborted"} => Len(Rows) \in {0, (simDuration \div dt) + 1}

\* C18: when the output path cannot be opened the run aborts before the first
\* timestep and stays aborted: no row is written, no node but genesis is
\* created, no event is scheduled; a run that has ended has written the full
\* series of rows or none.
C18_SetupError ==
    /\ []C18_NothingWithoutOutput
    /\ [][pc # "aborted"]_vars

\* a run that could have created nodes and was aborted by the failed open
C18_Witness ==
    /\ pc = "aborted"
    /\ simDuration >= dt
    /\ (IF sim = "tangle" THEN txProb ELSE postProbPerStep) > 0

\* ---- weighted_choice ----------------------------------------------------------
\* the indices (1-based) whose cumulative sum is >= r
Reaching(weights, r) == { k \in 1..Len(weights) : SumTo(weights, k) >= r }

\* C19: for a non-empty vector of non-negative weights, weighted_choice
\* returns an index of [0, n); if the weights sum to <= 0 it can return every
\* index of [0, n-1] and nothing else; otherwise, for the draw r of [0, sum),
\* it returns the smallest index whose cumulative sum is >= r, the last index
\* if there is none.
C19_WeightedChoice ==
    (sim = "none" /\ wc.weights # << >>) =>
        LET w == wc.weights
            n == Len(w)
            sum == SumTo(w, n)
        IN  /\ sum <= 0 => weighted_choice(w) = 0..(n - 1)
            /\ sum > 0 => weighted_choice(w) \subseteq 0..(n - 1)
            /\ wc.called =>
                 /\ wc.result \in 0..(n - 1)
                 /\ sum > 0 =>
                      /\ wc.r >= 0 /\ wc.r < sum
                      /\ wc.result = IF Reaching(w, wc.r) # {}
                                     THEN MinOf(Reaching(w, wc.r)) - 1
                                     ELSE n - 1

\* a call with a zero weight in front whose draw falls on a cumulative sum that
\* is not the last, and returns an index after the first
C19_Witness ==
    /\ sim = "none" /\ wc.called
    /\ Len(wc.weights) >= 3
    /\ wc.weights[1] = 0
    /\ wc.result >= 1 /\ wc.result < Len(wc.weights) - 1
    /\ wc.r = SumTo(wc.weights, wc.result + 1)

\* ---- several runs in one program ------------------------------------------------
\* C20: the nodes, the global tip set, the message counter and the metrics rows
\* of a tangle run are those of the run executed alone, whatever other run the
\* program executes: g_nodes holds genesis and the nodes this run created and
\* no others, the global tips are among them, one message is counted per
\* created node and other process, and from row to row total_nodes and
\* messages_sent never decrease.
C20_RunIndependence ==
    sim = "tangle" =>
        /\ DOMAIN g_nodes = DOMAIN creator
        /\ g_globalTips = { n \in DOMAIN creator : n \in DOMAIN g_nodes /\ g_nodes[n].children = << >> }
        /\ g_messagesSent = (Cardinality(DOMAIN creator) - 1) * (numProcesses - 1)
        /\ \A k \in 1..(Len(Rows) - 1) :
             /\ Rows[k + 1].total_nodes >= Rows[k].total_nodes
             /\ Rows[k + 1].messages_sent >= Rows[k].messages_sent

\* ---- tangle: tip selection --------------------------------------------------------
\* C21: in a tangle run, in every state, every process's tipSet is non-empty;
\* uniformRandomTip therefore never takes the branch of the empty tipSet, and
\* every id it can return is in the tipSet of the process.
C21_TipSetNonEmpty ==
    sim = "tangle" =>
        \A p \in DOMAIN procs :
            /\ procs[p].tipSet # {}
            /\ uniformRandomTip(procs[p]) \subseteq procs[p].tipSet

\* a RANDOM_ONLY run at a creation phase in which a process knows three nodes,
\* one of them received from another process, and its view has a single tip,
\* which is not genesis
C21_Witness ==
    /\ sim = "tangle" /\ mode = "RANDOM_ONLY" /\ pc = "create"
    /\ \E p \in DOMAIN procs :
         /\ Cardinality(procs[p].knownNodes) >= 3
         /\ Cardinality(procs[p].tipSet) = 1
         /\ 0 \notin procs[p].tipSet
         /\ \E n \in procs[p].knownNodes \ {0} : creator[n] # p

\* ---- tangle: the biased walk ------------------------------------------------------
RECURSIVE AncestorsOf(_, _)
\* the parents of n, their parents, and so on
AncestorsOf(nodes, n) ==
    LET ps == Range(nodes[n].parents)
    IN  ps \cup UNION { AncestorsOf(nodes, q) : q \in ps }

RECURSIVE reachKnown(_, _, _)
\* n and the nodes reached from n by moving to children the process knows
reachKnown(nodes, proc, n) ==
    {n} \cup UNION { reachKnown(nodes, proc, c) : c \in Range(nodes[n].children) \cap proc.knownNodes }

\* what the walk returns for process p: a known node without known child, in
\* p's tipSet, reached from genesis through known children
WalkReturnsLocalTip(p) ==
    LET reached == reachKnown(g_nodes, procs[p], 0)
    IN  \A t \in biasedRandomWalk(g_nodes, procs[p]) :
            /\ t \in procs[p].knownNodes
            /\ Range(g_nodes[t].children) \cap procs[p].knownNodes = {}
            /\ t \in procs[p].tipSet
            /\ t \in reached

\* C22 as stated: at a creation phase the walk of the process whose turn it is
\* returns a local tip reached from genesis through known children, and never
\* a tip that has an ancestor the process does not know.
C22_WalkResultAllAncestors ==
    (sim = "tangle" /\ pc = "create") =>
        /\ WalkReturnsLocalTip(prIdx)
        /\ \A t \in biasedRandomWalk(g_nodes, procs[prIdx]) :
             AncestorsOf(g_nodes, t) \subseteq procs[prIdx].knownNodes

\* C22, amended: in every state and for every process p, the walk returns a
\* node p knows, without known child, in p's tipSet, and reached from genesis
\* through children p knows; a tip of p's view that no such path reaches is
\* never returned. A returned tip can have ancestors p does not know, off the
\* path walked.
C22_WalkResult ==
    sim = "tangle" =>
        \A p \in DOMAIN procs :
            LET returned == biasedRandomWalk(g_nodes, procs[p])
                reached == reachKnown(g_nodes, procs[p], 0)
            IN  /\ WalkReturnsLocalTip(p)
                /\ returned # {}
                /\ \A t \in procs[p].tipSet \ reached : t \notin returned

\* a creation phase in which the walk of the process whose turn it is can return
\* a node, created by another process, one of whose parents it has not received
C22_Witness ==
    /\ sim = "tangle" /\ mode = "MCMC_ONLY" /\ pc = "create"
    /\ \E t \in biasedRandomWalk(g_nodes, procs[prIdx]) :
         /\ t # 0
         /\ creator[t] # prIdx
         /\ ~(AncestorsOf(g_nodes, t) \subseteq procs[prIdx].knownNodes)

RECURSIVE walkMoves(_, _, _, _)
\* biasedRandomWalk with its moves (assignments current = knownChildren[idx])
\* counted: the possible outcomes as records of the node, the number of moves
\* and whether the walk has returned; a walk is followed for Size(nodes) moves
walkMoves(nodes, proc, current, moves) ==
    LET knownChildren == knownChildrenOf(nodes, proc, current)
        weights == [k \in 1..Len(knownChildren) |-> Weight(nodes[knownChildren[k]].height)]
    IN  IF knownChildren = << >>
        THEN {[node |-> current, moves |-> moves, returned |-> TRUE]}
        ELSE IF moves >= Size(nodes)
        THEN {[node |-> current, moves |-> moves, returned |-> FALSE]}
        ELSE UNION { IF idx < 0
                     THEN {[node |-> knownChildren[1], moves |-> moves, returned |-> TRUE]}
                     ELSE walkMoves(nodes, proc, knownChildren[idx + 1], moves + 1)
                     : idx \in weighted_choice(weights) }

\* C23: in a tangle run, in every state, every child id in a node's children
\* list is an existing id strictly greater than the node's own id, and for
\* every process and every sequence of weighted choices biasedRandomWalk
\* returns after at most (number of nodes - 1) moves.
C23_WalkTerminates ==
    sim = "tangle" =>
        /\ \A n \in DOMAIN g_nodes : \A c \in Range(g_nodes[n].children) :
             c \in DOMAIN g_nodes /\ c > n
        /\ \A p \in DOMAIN procs :
             LET results == biasedRandomWalk(g_nodes, procs[p])
             IN  \A o \in walkMoves(g_nodes, procs[p], 0, 0) :
                     /\ o.returned
                     /\ o.moves <= Size(g_nodes) - 1
                     /\ o.node \in results

\* walks have built a chain of four nodes, and a walk of the process that knows
\* them all makes as many moves as the bound allows
C23_Witness ==
    /\ sim = "tangle" /\ mode = "MCMC_ONLY"
    /\ Size(g_nodes) >= 4
    /\ \E p \in DOMAIN procs :
         \E o \in walkMoves(g_nodes, procs[p], 0, 0) : o.returned /\ o.moves = Size(g_nodes) - 1

\* ---- tangle: the shape of a node ---------------------------------------------------
\* the number of entries of the vector v equal to x
Count(v, x) == Cardinality({ k \in DOMAIN v : v[k] = x })

\* C24: in a tangle run, in every state, genesis has height 0 and no parent;
\* every other node has exactly 2 parent entries, each the id of an earlier
\* node, its height is 1 + the greatest height of its parents, and its id is in
\* a node's children list as many times as that node is in its parents list.
C24_NodeShape ==
    sim = "tangle" =>
        /\ g_nodes[0].height = 0 /\ g_nodes[0].parents = << >>
        /\ \A n \in DOMAIN g_nodes :
             /\ g_nodes[n].id = n
             /\ n # 0 =>
                  /\ Len(g_nodes[n].parents) = 2
                  /\ Range(g_nodes[n].parents) \subseteq 0..(n - 1)
                  /\ g_nodes[n].height
                       = 1 + MaxOf({ g_nodes[q].height : q \in Range(g_nodes[n].parents) })
             /\ \A q \in DOMAIN g_nodes :
                  Count(g_nodes[q].children, n) = Count(g_nodes[n].parents, q)

\* a graph with a node whose two parent entries are the same id and a node
\* whose two parent entries differ
C24_Witness ==
    /\ sim = "tangle"
    /\ \E n \in DOMAIN g_nodes \ {0} :
         /\ g_nodes[n].parents[1] = g_nodes[n].parents[2]
         /\ Count(g_nodes[g_nodes[n].parents[1]].children, n) = 2
    /\ \E n \in DOMAIN g_nodes \ {0} :
         /\ g_nodes[n].parents[1] # g_nodes[n].parents[2]
         /\ g_nodes[n].height = 2

\* ---- the queue: events and their nodes ---------------------------------------------
\* C25: in both modes and in every state, every event in the queue carries the
\* id of an existing node (0 <= nodeId < number of nodes), is addressed to an
\* existing participant, and that participant is not the creator of the node;
\* the test (m.nodeId < 0 || m.nodeId >= size) of the drain loop is therefore
\* false for every event popped.
C25_EventsInRange ==
    /\ \A m \in pq :
         /\ m.nodeId >= 0 /\ m.nodeId < Size(Nodes)
         /\ m.receiverId \in Participants
         /\ m.receiverId # creator[m.nodeId]
    /\ (pc = "deliver" /\ Due) => \A m \in Tops : m.nodeId \in NodeIds

\* the drain loop is about to pop an event that carries the id of the last node
\* of the graph
C25_Witness ==
    /\ pc = "deliver" /\ Due
    /\ \E m \in Tops : m.nodeId = Size(Nodes) - 1 /\ m.nodeId > 0 /\ m.deliverTime <= now

\* ---- delivery: the order of the due events -------------------------------------------
\* the events for participant q that the drain loop of this step pops
DueEvents(q) == { m \in pq : m.receiverId = q /\ m.deliverTime <= now }

\* processReceiveNode(pr, m.nodeId), processReceiveBlock(pr, m.nodeId)
receive(st, nodeId) ==
    IF sim = "tangle" THEN processReceiveNode(g_nodes, st, nodeId)
    ELSE processReceiveBlock(st, nodeId)

View(q) == IF sim = "tangle" THEN procs[q] ELSE wprocs[q]

RECURSIVE drainInAnyOrder(_, _)
\* the views a participant can end with when the events of S are applied to
\* its view st one after the other, in each of the orders
drainInAnyOrder(st, S) ==
    IF S = {} THEN {st}
    ELSE UNION { drainInAnyOrder(receive(st, m.nodeId), S \ {m}) : m \in S }

\* C26: in both modes, at every state of a drain phase and for every
\* participant, applying the due events addressed to it in any order gives one
\* and the same view: the knowledge set is the old one with the events' nodes
\* added, and in a tangle run the tipSet is the same; receiving a node already
\* known changes nothing.
C26_OrderIrrelevant ==
    pc = "deliver" =>
        \A q \in Participants :
            LET views == drainInAnyOrder(View(q), DueEvents(q))
            IN  /\ Cardinality(views) = 1
                /\ \A st \in views :
                     (IF sim = "tangle" THEN st.knownNodes ELSE st.knownBlocks)
                         = Known(q) \cup { m.nodeId : m \in DueEvents(q) }
                /\ \A n \in Known(q) : receive(View(q), n) = View(q)

\* a tangle drain phase in which a node and one of its parents are due for the
\* same process at the same deliverTime, neither known to it yet
C26_Witness ==
    /\ sim = "tangle" /\ pc = "deliver"
    /\ \E q \in Participants : \E m1, m2 \in DueEvents(q) :
         /\ m1.deliverTime = m2.deliverTime
         /\ m1.nodeId \in Range(g_nodes[m2.nodeId].parents)
         /\ m1.nodeId \notin Known(q) /\ m2.nodeId \notin Known(q)

\* ---- witness: the width of the graph ---------------------------------------------------
\* C27: in a witness run, in every state, a global leaf is genesis, and then
\* no block has been created, or it is the lastBlockId of its owner; once a
\* block exists there are at most as many global leaves as users, and no row
\* written after the first block reports more.
C27_WidthBound ==
    sim = "witness" =>
        /\ \A l \in g_globalLeaves :
             IF l = 0 THEN Size(g_wnodes) = 1
             ELSE /\ l \in DOMAIN g_wnodes
                  /\ g_wnodes[l].owner \in DOMAIN wprocs
                  /\ wprocs[g_wnodes[l].owner].lastBlockId = l
        /\ g_globalLeaves # {}
        /\ Size(g_wnodes) > 1 => Cardinality(g_globalLeaves) <= Cardinality(DOMAIN wprocs)
        /\ \A k \in 1..Len(Rows) :
             Rows[k].total_nodes > 1 => Rows[k].global_leaves <= Cardinality(DOMAIN wprocs)

\* every user has posted, no block has been taken as a witness, and a row
\* reports as many leaves as there are users
C27_Witness ==
    /\ sim = "witness"
    /\ Cardinality(g_globalLeaves) = Cardinality(DOMAIN wprocs)
    /\ \A u \in DOMAIN wprocs : wprocs[u].lastBlockId \in g_globalLeaves
    /\ \E k \in 1..Len(Rows) : Rows[k].global_leaves = Cardinality(DOMAIN wprocs)

\* ---- tangle: local views and the true tips -----------------------------------------------
\* C28: in a tangle run, in every state, every global tip that a process knows
\* is in that process's tipSet, and every global tip other than genesis is in
\* the tipSet of the process that created it; every global tip is thus in at
\* least one tipSet, and no row reports fewer local tips in total than global
\* tips.
C28_LocalViewsCoverTips ==
    sim = "tangle" =>
        /\ \A t \in g_globalTips :
             /\ \A p \in DOMAIN procs : t \in procs[p].knownNodes => t \in procs[p].tipSet
             /\ t # 0 => t \in procs[creator[t]].tipSet
             /\ \E p \in DOMAIN procs : t \in procs[p].tipSet
        /\ \A k \in 1..Len(Rows) : Rows[k].avg_local_tips[1] >= Rows[k].global_tips

\* a global tip is in the tipSet of a process that received it from its
\* creator, and that process counts a second tip, which has a child in the graph
\* and is no global tip
C28_Witness ==
    /\ sim = "tangle"
    /\ \E t \in g_globalTips \ {0} : \E p \in DOMAIN procs :
         /\ creator[t] # p
         /\ t \in procs[p].tipSet
         /\ \E l \in procs[p].tipSet : l \notin g_globalTips

====
